---- MODULE Spec2Model ----
(***************************************************************************)
(* Model of the ApiClient request layer of agentverse-web (lib/api):       *)
(* request deduplication (pendingRequests), cancellation (abortControllers)*)
(* and error normalisation in ApiClient.request, cancelAllRequests and     *)
(* setAccessToken, and the operations that call fetch() or EventSource     *)
(* themselves (checkHealth, exportSimulation, streamSimulation and the     *)
(* persona uploads).                                                       *)
(*                                                                         *)
(* JavaScript runs the client on one event loop.  A step of the model is   *)
(* one run-to-completion piece of code: a call of a public operation, or   *)
(* the continuation of the async closure of request() after one of its     *)
(* awaited promises settles.  A request is identified by the slot of reqs  *)
(* that holds its closure; the slot is free again once its promise has     *)
(* settled and the callers have received the result.                       *)
(***************************************************************************)
EXTENDS Integers, Sequences, FiniteSets, Bags, TLC

VARIABLES
    accessToken,       \* ApiClient.accessToken
    pendingRequests,   \* ApiClient.pendingRequests: request key -> promise (its request)
    abortControllers,  \* ApiClient.abortControllers: request key -> controller (its request)
    reqs,              \* the async closures of request() whose promise is pending
    returned,          \* what request() returns in this step, if it is called
    settlement,        \* what the callers of a promise receive in this step, if anything
    baseUrl,           \* ApiClient.baseUrl
    direct,            \* the network operations in flight that were begun outside request()
    health,            \* what the last checkHealth() that settled gave its caller
    session,           \* useApiAuth: the session value its effect last ran for
    poll,              \* useSimulation: the query of one run and its refetch interval
    proxy,             \* the API proxy route: the request it is handling
    menu,              \* MemberList: its props, one of its rows and the open menu
    modal              \* MemberInviteModal: its props and state

\* the state of the hooks, the proxy route and the components
pageVars == <<session, poll, proxy, menu, modal>>
\* the state outside the request layer
uiVars == <<health, pageVars>>
vars == <<accessToken, pendingRequests, abortControllers, reqs, returned, settlement,
          baseUrl, direct, uiVars>>

(***************************************************************************)
(* Bounds and input sets                                                   *)
(***************************************************************************)
\* number of requests whose promise is pending at the same time
MaxInFlight == 2
\* number of network operations begun outside request() that are in flight at
\* the same time
MaxDirect == 2
\* number of refetches of one query that its interval timer starts
MaxPolls == 5
\* calls of onInvite that have not settled
MaxInvites == 2

\* options.method absent (undefined); falsy, as '' is
NoMethod == ""
\* options.body absent (undefined); falsy, as '' is
NoBody == ""
\* accessToken === null
NullToken == "<null>"
\* no Authorization entry in the headers object
NoHeader == "<none>"

Methods == {NoMethod, "GET", "POST"}
Endpoints == {"/a"}
ReqBodies == {NoBody}
Tokens == {NullToken, "", "t1"}
OkStatuses == {200}
ErrStatuses == {404}
Data == {"d1"}
\* messages of the TypeError a failed fetch() rejects with (Chromium, Node, WebKit)
FetchFailures == {"Failed to fetch", "Load failed"}
\* process.env.NEXT_PUBLIC_API_URL when it is not set
DefaultApiUrl == "http://localhost:8000"
\* the base URLs a client is constructed with: the default, and the empty
\* string of a deployment that serves the API from its own origin
BaseUrls == {DefaultApiUrl, ""}
Files == {"f1"}
RunIds == {"r1"}
Formats == {"csv"}

(***************************************************************************)
(* JavaScript values that reach the error handling code                    *)
(***************************************************************************)
JStr(s) == [t |-> "string", v |-> s]
JArr == [t |-> "array", v |-> "[...]"]
JUndef == [t |-> "undefined", v |-> ""]

\* JavaScript truthiness of a (string | array | undefined) value
Truthy(j) == j.t = "array" \/ (j.t = "string" /\ j.v # "")

\* decoded JSON bodies of an error response
JObj(d) == [t |-> "object", detail |-> d]
JNull == [t |-> "null", detail |-> JUndef]
ErrBodies == {JObj(JStr("Not found")), JObj(JStr("")), JObj(JUndef), JObj(JArr), JNull}

\* a thrown value: cls is "object" for a plain object literal, else the class
Thrown(cls, name, msg, detail, status) ==
    [cls |-> cls, name |-> name, message |-> msg, detail |-> detail, status |-> status]
NoStatus == -1
ApiError(detail, status) == Thrown("object", "", "", detail, status)
TypeErrorOf(msg) == Thrown("TypeError", "TypeError", msg, JUndef, NoStatus)
AbortError == Thrown("DOMException", "AbortError", "The user aborted a request.", JUndef, NoStatus)
SyntaxError == Thrown("SyntaxError", "SyntaxError", "Unexpected end of JSON input", JUndef, NoStatus)

RECURSIVE IncludesFrom(_, _, _)
IncludesFrom(s, sub, i) ==
    IF i + Len(sub) - 1 > Len(s) THEN FALSE
    ELSE IF SubSeq(s, i, i + Len(sub) - 1) = sub THEN TRUE
    ELSE IncludesFrom(s, sub, i + 1)
\* String.prototype.includes
Includes(s, sub) == IncludesFrom(s, sub, 1)

(***************************************************************************)
(* Pure helpers of ApiClient.request                                       *)
(***************************************************************************)
\* `${options.method || 'GET'}:${endpoint}:${options.body || ''}`
GetRequestKey(endpoint, method, body) ==
    (IF method # "" THEN method ELSE "GET") \o ":" \o endpoint \o ":"
        \o (IF body # "" THEN body ELSE "")

\* variant: the method test is dropped
IsDedupReadAnyMethod(deduplicate, method) ==
    deduplicate

\* deduplicate && (!options.method || options.method === 'GET')
IsDedupRead(deduplicate, method) ==
    deduplicate /\ (method = "" \/ method = "GET")

\* variant: the token is compared with null only
AuthHeaderUnlessNull(token) ==
    IF token # NullToken THEN "Bearer " \o token ELSE NoHeader

\* if (this.accessToken) headers['Authorization'] = `Bearer ${this.accessToken}`
AuthHeader(token) ==
    IF token # NullToken /\ token # "" THEN "Bearer " \o token ELSE NoHeader

\* a plain object as its entries in insertion order; obj[name] = value
\* replaces the entry of that exact name or adds one at the end
Entry(name, value) == [name |-> name, value |-> value]
ObjSet(obj, name, value) ==
    IF \E i \in 1..Len(obj) : obj[i].name = name
    THEN [i \in 1..Len(obj) |-> IF obj[i].name = name THEN Entry(name, value) ELSE obj[i]]
    ELSE Append(obj, Entry(name, value))
\* { ...obj, ...src }
RECURSIVE Spread(_, _)
Spread(obj, src) ==
    IF src = << >> THEN obj
    ELSE Spread(ObjSet(obj, Head(src).name, Head(src).value), Tail(src))

\* the headers object request() passes to fetch()
RequestHeaders(optHeaders, token) ==
    LET headers == Spread(<<Entry("Content-Type", "application/json")>>, optHeaders) IN
    IF AuthHeader(token) # NoHeader
    THEN ObjSet(headers, "Authorization", AuthHeader(token))
    ELSE headers

\* fetch() builds a Headers list from the object: names match without regard
\* to case and the values of one name are sent joined by ", "
LowerName(name) ==
    CASE name = "Authorization" -> "authorization"
      [] name = "Content-Type" -> "content-type"
      [] OTHER -> name
RECURSIVE JoinValues(_)
JoinValues(entries) ==
    IF Len(entries) = 1 THEN entries[1].value
    ELSE entries[1].value \o ", " \o JoinValues(Tail(entries))
HeaderSent(headers, lowerName) ==
    LET IsName(e) == LowerName(e.name) = lowerName
        entries == SelectSeq(headers, IsName) IN
    IF entries = << >> THEN NoHeader ELSE JoinValues(entries)

\* throw { detail: error.detail || 'An error occurred', status: response.status };
\* reading .detail of null throws a TypeError instead
ThrowHttpError(body, status) ==
    IF body.t = "null"
    THEN TypeErrorOf("Cannot read properties of null (reading 'detail')")
    ELSE ApiError(IF Truthy(body.detail) THEN body.detail ELSE JStr("An error occurred"),
                  status)

\* the catch block of the async closure: what it throws for a caught error
CatchBlock(error) ==
    IF error.cls = "TypeError" /\ Includes(error.message, "fetch")
    THEN ApiError(JStr("Unable to connect to server. Please check your connection and try again."), 0)
    ELSE IF error.cls = "DOMException" /\ error.name = "AbortError"
    THEN ApiError(JStr("Request was cancelled"), 0)
    ELSE IF error.cls = "object"
    THEN error
    ELSE ApiError(JStr("Network error. Please check your connection and try again."), 0)

(***************************************************************************)
(* Map<string, _> operations                                               *)
(***************************************************************************)
EmptyMap == [k \in {} |-> 0]
MapSet(m, k, v) == [x \in (DOMAIN m) \cup {k} |-> IF x = k THEN v ELSE m[x]]
MapDelete(m, k) == [x \in (DOMAIN m) \ {k} |-> m[x]]
MapValues(m) == {m[k] : k \in DOMAIN m}

(***************************************************************************)
(* Promises and closures                                                   *)
(***************************************************************************)
NoError == Thrown("none", "", "", JUndef, NoStatus)
Pending == [state |-> "pending", value |-> "", error |-> NoError]
Fulfilled(v) == [state |-> "fulfilled", value |-> v, error |-> NoError]
Rejected(e) == [state |-> "rejected", value |-> "", error |-> e]

Slots == 1..MaxInFlight
\* a closure: the arguments and request key it captured, the Authorization
\* header its fetch() sends, whether its promise is registered for
\* deduplication, where it is suspended, how many times it has called
\* fetch(), the status of the response it holds, and whether
\* cancelAllRequests() ran since it started
FreeSlot == [method |-> "", endpoint |-> "", body |-> "", key |-> "", dedup |-> FALSE,
             auth |-> NoHeader, phase |-> "free", fetches |-> 0, status |-> 0,
             cancelled |-> FALSE]
Live == {r \in Slots : reqs[r].phase # "free"}

\* a call of request(): its arguments, the promise it returns (the slot of
\* its closure) and whether the call began a network call of its own
NoCall == [called |-> FALSE, method |-> "", endpoint |-> "", body |-> "",
           headers |-> << >>, deduplicate |-> FALSE, promise |-> 0, fetched |-> FALSE]
Call(method, endpoint, body, headers, deduplicate, promise, fetched) ==
    [called |-> TRUE, method |-> method, endpoint |-> endpoint, body |-> body,
     headers |-> headers, deduplicate |-> deduplicate, promise |-> promise,
     fetched |-> fetched]

\* the body of an error response as the closure obtained it
NoBodyRead == [t |-> "none", detail |-> JUndef]
Undecodable == [t |-> "undecodable", detail |-> JUndef]
NoSettlement == [key |-> "", status |-> 0, cancelled |-> FALSE,
                 promise |-> Pending, body |-> NoBodyRead]
\* the promise of the closure in slot r settles with outcome p
Settle(r, p, body) ==
    /\ reqs' = [reqs EXCEPT ![r] = FreeSlot]
    /\ settlement' = [key |-> reqs[r].key, status |-> reqs[r].status,
                      cancelled |-> reqs[r].cancelled, promise |-> p, body |-> body]
    /\ returned' = NoCall

\* the outcome of checkHealth(): whether its promise rejected, the value it
\* resolved with, and the response it came from
HealthResult(healthy, version, error) ==
    [healthy |-> healthy, version |-> version, error |-> error]
NoHealth == [settled |-> FALSE, rejected |-> FALSE, status |-> 0, body |-> NoBodyRead,
             result |-> HealthResult(FALSE, JUndef, JUndef)]
HealthOutcome(rejected, status, body, result) ==
    [settled |-> TRUE, rejected |-> rejected, status |-> status, body |-> body,
     result |-> result]

(***************************************************************************)
(* State after construction: new ApiClient(baseUrl)                        *)
(***************************************************************************)
\* useSession(): no session (signed out or still loading), or a session with
\* a user that has an accessToken or has none
NoUserToken == "<undefined>"
NoSession == [user |-> FALSE, accessToken |-> NoUserToken]
UserSession(token) == [user |-> TRUE, accessToken |-> token]
SessionValues == {NoSession, UserSession(NoUserToken), UserSession("t1"), UserSession("t2")}

\* the query of useSimulation before it is mounted: the status of the run on
\* the server, the status last fetched, whether a fetch is under way, the
\* refetch interval in force and how often its timer has started a fetch
NoPoll == [mounted |-> FALSE, server |-> "pending", data |-> "none", fetching |-> FALSE,
           interval |-> 0, polls |-> 0]
\* the proxy route: where proxyRequest() is, the method, the Authorization
\* header of the incoming request, the accessToken of the server session, the
\* Authorization header sent to the backend, the status and body of the
\* backend response and the answer to the client
NoAnswer == [status |-> 0, body |-> ""]
NoProxy == [phase |-> "idle", method |-> "", inAuth |-> NoHeader,
            sessionToken |-> NoUserToken, sentAuth |-> NoHeader, status |-> 0,
            bodyRead |-> FALSE, body |-> "", answer |-> NoAnswer]
\* MemberList: the props currentUserRole and currentUserId, one member of
\* the list, whether openMenu is the id of that member, and the callback
\* the last click called
NoRole == "<undefined>"
NoUserId == "<undefined>"
NoCallback == [fn |-> "none", userId |-> "", role |-> ""]
NoMenu == [rendered |-> FALSE, currentUserRole |-> NoRole, currentUserId |-> NoUserId,
           member |-> [id |-> "", role |-> ""], open |-> FALSE, callback |-> NoCallback]
\* MemberInviteModal: its props isOpen, maxMembers and currentMemberCount,
\* its state email, role, isLoading and error, the calls of onInvite that
\* have not settled, the arguments of the last one, and what the handler
\* did last
NoModalError == "<null>"
NoInvite == [email |-> "", role |-> ""]
NoModal == [rendered |-> FALSE, isOpen |-> FALSE, maxMembers |-> 1, currentMemberCount |-> 1,
            email |-> "", role |-> "member", isLoading |-> FALSE, error |-> NoModalError,
            pending |-> 0, invited |-> NoInvite, last |-> "none"]

\* nothing outside the request layer has happened
UiInit ==
    /\ health = NoHealth
    /\ session = NoSession
    /\ poll = NoPoll
    /\ proxy = NoProxy
    /\ menu = NoMenu
    /\ modal = NoModal

Init ==
    /\ accessToken = NullToken
    /\ pendingRequests = EmptyMap
    /\ abortControllers = EmptyMap
    /\ reqs = [r \in Slots |-> FreeSlot]
    /\ returned = NoCall
    /\ settlement = NoSettlement
    /\ baseUrl = DefaultApiUrl
    /\ direct = EmptyBag
    /\ UiInit

\* variant: clearing the token drops the tracked requests
SetAccessTokenClearing(token) ==
    /\ accessToken' = token
    /\ pendingRequests' = IF token = NullToken THEN EmptyMap ELSE pendingRequests
    /\ abortControllers' = IF token = NullToken THEN EmptyMap ELSE abortControllers
    /\ returned' = NoCall
    /\ settlement' = NoSettlement
    /\ UNCHANGED <<reqs, baseUrl, direct, uiVars>>

\* variant: the headers of the requests in flight follow the token
SetAccessTokenRetroactive(token) ==
    /\ accessToken' = token
    /\ reqs' = [r \in Slots |->
                  IF reqs[r].phase # "free"
                  THEN [reqs[r] EXCEPT !.auth = AuthHeader(token)]
                  ELSE reqs[r]]
    /\ returned' = NoCall
    /\ settlement' = NoSettlement
    /\ UNCHANGED <<pendingRequests, abortControllers, baseUrl, direct, uiVars>>

\* setAccessToken(token)
SetAccessToken(token) ==
    /\ accessToken' = token
    /\ returned' = NoCall
    /\ settlement' = NoSettlement
    /\ UNCHANGED <<pendingRequests, abortControllers, reqs, baseUrl, direct, uiVars>>

\* request(endpoint, options, deduplicate) up to its return: the dedup lookup,
\* the headers, the AbortController, the start of the async closure (which runs
\* synchronously up to fetch()) and the registration of the promise
Request(method, endpoint, body, headers, deduplicate) ==
    LET requestKey == GetRequestKey(endpoint, method, body) IN
    /\ settlement' = NoSettlement
    /\ UNCHANGED <<baseUrl, direct, uiVars>>
    /\ IF IsDedupRead(deduplicate, method) /\ requestKey \in DOMAIN pendingRequests
       THEN \* return pendingRequest
            /\ returned' = Call(method, endpoint, body, headers, deduplicate,
                                pendingRequests[requestKey], FALSE)
            /\ UNCHANGED <<accessToken, pendingRequests, abortControllers, reqs>>
       ELSE /\ Live # Slots
            /\ LET id == CHOOSE r \in Slots \ Live : \A q \in Slots \ Live : r <= q IN
               /\ reqs' = [reqs EXCEPT ![id] =
                     [method |-> method, endpoint |-> endpoint, body |-> body,
                      key |-> requestKey, dedup |-> IsDedupRead(deduplicate, method),
                      auth |-> HeaderSent(RequestHeaders(headers, accessToken),
                                          "authorization"),
                      phase |-> "fetch", fetches |-> 1, status |-> 0,
                      cancelled |-> FALSE]]
               /\ abortControllers' = MapSet(abortControllers, requestKey, id)
               /\ pendingRequests' =
                     IF IsDedupRead(deduplicate, method)
                     THEN MapSet(pendingRequests, requestKey, id)
                     ELSE pendingRequests
               /\ returned' = Call(method, endpoint, body, headers, deduplicate, id, TRUE)
            /\ UNCHANGED accessToken

\* variant: the cleanup forgets the cancellation registry
FinallyPendingOnly(requestKey) ==
    /\ pendingRequests' = MapDelete(pendingRequests, requestKey)
    /\ abortControllers' = abortControllers

\* finally { this.pendingRequests.delete(requestKey); this.abortControllers.delete(requestKey); }
Finally(requestKey) ==
    /\ pendingRequests' = MapDelete(pendingRequests, requestKey)
    /\ abortControllers' = MapDelete(abortControllers, requestKey)

\* variant: a failed request is sent once more before the failure is delivered
ThrowInTryRetrying(r, error, body) ==
    IF reqs[r].fetches < 2
    THEN /\ reqs' = [reqs EXCEPT ![r].phase = "fetch", ![r].fetches = @ + 1]
         /\ returned' = NoCall
         /\ settlement' = NoSettlement
         /\ UNCHANGED <<accessToken, pendingRequests, abortControllers, baseUrl, direct, uiVars>>
    ELSE /\ Settle(r, Rejected(CatchBlock(error)), body)
         /\ Finally(reqs[r].key)
         /\ UNCHANGED <<accessToken, baseUrl, direct, uiVars>>

\* a value is thrown inside the try block: catch maps it, finally cleans up,
\* and the promise of the closure rejects
ThrowInTry(r, error, body) ==
    /\ Settle(r, Rejected(CatchBlock(error)), body)
    /\ Finally(reqs[r].key)
    /\ UNCHANGED <<accessToken, baseUrl, direct, uiVars>>

\* fetch() resolves with a response.  ok: `return response.json()` leaves the
\* try block without awaiting, so finally runs now and the promise of the
\* closure follows the promise of response.json().  Not ok: the closure
\* awaits response.json() of the error body inside the try block.
FetchResolve(r, status) ==
    /\ reqs[r].phase = "fetch"
    /\ IF status \in OkStatuses
       THEN /\ reqs' = [reqs EXCEPT ![r].phase = "jsonOk", ![r].status = status]
            /\ Finally(reqs[r].key)
       ELSE /\ reqs' = [reqs EXCEPT ![r].phase = "jsonErr", ![r].status = status]
            /\ UNCHANGED <<pendingRequests, abortControllers>>
    /\ returned' = NoCall
    /\ settlement' = NoSettlement
    /\ UNCHANGED <<accessToken, baseUrl, direct, uiVars>>

\* fetch() rejects with a TypeError (transport failure)
FetchReject(r, message) ==
    /\ reqs[r].phase = "fetch"
    /\ ThrowInTry(r, TypeErrorOf(message), NoBodyRead)

\* the rejection of an aborted fetch() reaches the closure
FetchAborted(r) ==
    /\ reqs[r].phase = "fetchAborted"
    /\ ThrowInTry(r, AbortError, NoBodyRead)

\* response.json() of a success response resolves: the callers get the data
JsonOkResolve(r, data) ==
    /\ reqs[r].phase = "jsonOk"
    /\ Settle(r, Fulfilled(data), NoBodyRead)
    /\ UNCHANGED <<accessToken, pendingRequests, abortControllers, baseUrl, direct, uiVars>>

\* response.json() of a success response rejects (empty or malformed body, or
\* an aborted body read): the closure has already returned, so the catch
\* block does not see the error
JsonOkReject(r) ==
    /\ reqs[r].phase \in {"jsonOk", "jsonOkAborted"}
    /\ Settle(r, Rejected(IF reqs[r].phase = "jsonOkAborted" THEN AbortError ELSE SyntaxError),
              NoBodyRead)
    /\ UNCHANGED <<accessToken, pendingRequests, abortControllers, baseUrl, direct, uiVars>>

\* response.json() of an error response resolves with the decoded body
JsonErrResolve(r, body) ==
    /\ reqs[r].phase = "jsonErr"
    /\ ThrowInTry(r, ThrowHttpError(body, reqs[r].status), body)

\* response.json() of an error response rejects (malformed body or aborted
\* body read): .catch(() => ({ detail: 'An error occurred' }))
JsonErrReject(r) ==
    /\ reqs[r].phase \in {"jsonErr", "jsonErrAborted"}
    /\ ThrowInTry(r, ThrowHttpError(JObj(JStr("An error occurred")), reqs[r].status),
                  Undecodable)

\* controller.abort(): the awaited fetch() or body read rejects with an
\* AbortError; the closure sees it in a later microtask
AbortPhase(phase) ==
    CASE phase = "fetch" -> "fetchAborted"
      [] phase = "jsonErr" -> "jsonErrAborted"
      [] phase = "jsonOk" -> "jsonOkAborted"
      [] OTHER -> phase

\* variant: the pending-request table is not cleared
CancelAllRequestsKeepPending ==
    /\ reqs' = [r \in Slots |->
                  IF r \in Live
                  THEN [reqs[r] EXCEPT
                          !.phase = IF r \in MapValues(abortControllers)
                                    THEN AbortPhase(@) ELSE @,
                          !.cancelled = TRUE]
                  ELSE reqs[r]]
    /\ pendingRequests' = pendingRequests
    /\ abortControllers' = EmptyMap
    /\ returned' = NoCall
    /\ settlement' = NoSettlement
    /\ UNCHANGED <<accessToken, baseUrl, direct, uiVars>>

\* cancelAllRequests()
CancelAllRequests ==
    /\ reqs' = [r \in Slots |->
                  IF r \in Live
                  THEN [reqs[r] EXCEPT
                          !.phase = IF r \in MapValues(abortControllers)
                                    THEN AbortPhase(@) ELSE @,
                          !.cancelled = TRUE]
                  ELSE reqs[r]]
    /\ pendingRequests' = EmptyMap
    /\ abortControllers' = EmptyMap
    /\ returned' = NoCall
    /\ settlement' = NoSettlement
    /\ UNCHANGED <<accessToken, baseUrl, direct, uiVars>>

(***************************************************************************)
(* Operations that call fetch() or EventSource themselves                  *)
(***************************************************************************)
\* new ApiClient(baseUrl) for any base URL
InitAnyUrl ==
    /\ accessToken = NullToken
    /\ pendingRequests = EmptyMap
    /\ abortControllers = EmptyMap
    /\ reqs = [r \in Slots |-> FreeSlot]
    /\ returned = NoCall
    /\ settlement = NoSettlement
    /\ baseUrl \in BaseUrls
    /\ direct = EmptyBag
    /\ UiInit

\* a network operation: who began it, the URL, method and Authorization
\* header it is sent with, and what it uploads
DirectOp(op, url, method, auth, body) ==
    [op |-> op, url |-> url, method |-> method, auth |-> auth, body |-> body,
     phase |-> "fetch", status |-> 0]

\* the operation is on the network; nothing else of the client changes
BeginDirect(d) ==
    /\ direct' = direct (+) SetToBag({d})
    /\ returned' = NoCall
    /\ settlement' = NoSettlement
    /\ UNCHANGED <<accessToken, pendingRequests, abortControllers, reqs, baseUrl, uiVars>>

\* variant: the health check is sent to the API server like the other calls
CheckHealthAbsolute ==
    /\ BagCardinality(direct) < MaxDirect
    /\ BeginDirect(DirectOp("checkHealth", baseUrl \o "/api/health", "GET", NoHeader, NoBody))

\* checkHealth() up to its fetch()
CheckHealth ==
    /\ BagCardinality(direct) < MaxDirect
    /\ BeginDirect(DirectOp("checkHealth", "/api/health", "GET", NoHeader, NoBody))

\* exportSimulation(runId, format) up to its fetch()
ExportSimulation(runId, format) ==
    /\ BagCardinality(direct) < MaxDirect
    /\ BeginDirect(DirectOp("exportSimulation",
                            baseUrl \o "/api/v1/simulations/" \o runId
                                \o "/export?format=" \o format,
                            "GET", AuthHeader(accessToken), NoBody))

\* streamSimulation(runId, token): the EventSource is open
StreamSimulation(runId) ==
    /\ BagCardinality(direct) < MaxDirect
    /\ BeginDirect(DirectOp("streamSimulation",
                            baseUrl \o "/api/v1/simulations/" \o runId \o "/stream",
                            "GET", NoHeader, NoBody))

\* variant: the upload registers an AbortController as request() does
AnalyzePersonaUploadTracked(file) ==
    /\ BagCardinality(direct) < MaxDirect
    /\ direct' = direct (+) SetToBag({DirectOp("analyzePersonaUpload",
                         baseUrl \o "/api/v1/personas/upload/analyze",
                         "POST", AuthHeader(accessToken), file)})
    /\ abortControllers' =
          MapSet(abortControllers, "POST:/api/v1/personas/upload/analyze:", 0)
    /\ returned' = NoCall
    /\ settlement' = NoSettlement
    /\ UNCHANGED <<accessToken, pendingRequests, reqs, baseUrl, uiVars>>

\* analyzePersonaUpload(file) up to its fetch()
AnalyzePersonaUpload(file) ==
    /\ BagCardinality(direct) < MaxDirect
    /\ BeginDirect(DirectOp("analyzePersonaUpload",
                            baseUrl \o "/api/v1/personas/upload/analyze",
                            "POST", AuthHeader(accessToken), file))

\* processPersonaUpload(file, mapping, templateId) up to its fetch()
ProcessPersonaUpload(file) ==
    /\ BagCardinality(direct) < MaxDirect
    /\ BeginDirect(DirectOp("processPersonaUpload",
                            baseUrl \o "/api/v1/personas/upload/process",
                            "POST", AuthHeader(accessToken), file))

\* the operation ends: its fetch() settles and its caller gets the outcome,
\* or its EventSource is closed
DirectEnd(d) ==
    /\ BagIn(d, direct)
    /\ d.op # "checkHealth"
    /\ direct' = direct (-) SetToBag({d})
    /\ returned' = NoCall
    /\ settlement' = NoSettlement
    /\ UNCHANGED <<accessToken, pendingRequests, abortControllers, reqs, baseUrl, uiVars>>

\* the bodies of a health response that decode: with and without a version,
\* and the JSON text null
HealthData(version) == [t |-> "object", detail |-> JUndef, version |-> version]
HealthNull == [t |-> "null", detail |-> JUndef, version |-> JUndef]
HealthBodies == {HealthData(JStr("1.0")), HealthData(JUndef), HealthNull}

\* catch { return { healthy: false, error: 'Unable to connect to server' }; }
HealthCatch == HealthResult(FALSE, JUndef, JStr("Unable to connect to server"))

\* checkHealth() settles for the operation d: it leaves the network and the
\* caller gets the outcome
HealthSettle(d, outcome) ==
    /\ direct' = direct (-) SetToBag({d})
    /\ health' = outcome
    /\ returned' = NoCall
    /\ settlement' = NoSettlement
    /\ UNCHANGED <<accessToken, pendingRequests, abortControllers, reqs, baseUrl, pageVars>>

\* the fetch() of checkHealth() resolves: an ok response goes on to
\* `await response.json()`, another one gives `Server returned <status>`
HealthFetchResolve(d, status) ==
    /\ BagIn(d, direct) /\ d.op = "checkHealth" /\ d.phase = "fetch"
    /\ IF status \in OkStatuses
       THEN /\ direct' = (direct (-) SetToBag({d}))
                            (+) SetToBag({[d EXCEPT !.phase = "json", !.status = status]})
            /\ returned' = NoCall
            /\ settlement' = NoSettlement
            /\ UNCHANGED <<accessToken, pendingRequests, abortControllers, reqs, baseUrl,
                           uiVars>>
       ELSE HealthSettle(d, HealthOutcome(FALSE, status, NoBodyRead,
                HealthResult(FALSE, JUndef, JStr("Server returned " \o ToString(status)))))

\* the fetch() of checkHealth() rejects: the catch block answers
HealthFetchReject(d) ==
    /\ BagIn(d, direct) /\ d.op = "checkHealth" /\ d.phase = "fetch"
    /\ HealthSettle(d, HealthOutcome(FALSE, 0, NoBodyRead, HealthCatch))

\* the body of an ok health response decodes: { healthy: true, version:
\* data.version }; reading .version of null throws inside the try block
HealthJsonResolve(d, data) ==
    /\ BagIn(d, direct) /\ d.op = "checkHealth" /\ d.phase = "json"
    /\ HealthSettle(d, HealthOutcome(FALSE, d.status, data,
            IF data.t = "null" THEN HealthCatch
            ELSE HealthResult(TRUE, data.version, JUndef)))

\* variant: the body is decoded after the try block has been left, as in
\* `return response.json()`
HealthJsonRejectUncaught(d) ==
    /\ BagIn(d, direct) /\ d.op = "checkHealth" /\ d.phase = "json"
    /\ HealthSettle(d, HealthOutcome(TRUE, d.status, Undecodable,
                                     HealthResult(FALSE, JUndef, JUndef)))

\* the body of an ok health response does not decode: `await
\* response.json()` throws inside the try block and the catch block answers
HealthJsonReject(d) ==
    /\ BagIn(d, direct) /\ d.op = "checkHealth" /\ d.phase = "json"
    /\ HealthSettle(d, HealthOutcome(FALSE, d.status, Undecodable, HealthCatch))

(***************************************************************************)
(* Hooks                                                                   *)
(***************************************************************************)
\* useApiAuth: useSession() gives a new session value and the effect runs
\* for it: api.setAccessToken(user.accessToken) if the user has one,
\* api.setAccessToken(null) if there is no user, nothing otherwise
UseApiAuthEffect(s) ==
    /\ s # session
    /\ session' = s
    /\ accessToken' =
          IF s.user
          THEN IF s.accessToken \notin {NoUserToken, ""} THEN s.accessToken ELSE accessToken
          ELSE NullToken
    /\ returned' = NoCall
    /\ settlement' = NoSettlement
    /\ UNCHANGED <<pendingRequests, abortControllers, reqs, baseUrl, direct, health,
                   poll, proxy, menu, modal>>

\* the state of the API client
clientVars == <<accessToken, pendingRequests, abortControllers, reqs, returned, settlement,
                baseUrl, direct, health>>

\* refetchInterval: (query) => data?.status === 'running' || data?.status ===
\* 'pending' ? 2000 : false, with 0 for false
PollMs == 2000
\* variant: the interval stops only for a failed run
RefetchIntervalUntilFailed(data) ==
    IF data \in {"running", "pending", "completed"} THEN PollMs ELSE 0
RefetchInterval(data) ==
    IF data = "running" \/ data = "pending" THEN PollMs ELSE 0

\* the run on the server goes from pending to running and from there to
\* completed or failed
RunAdvance ==
    /\ \/ poll.server = "pending" /\ poll' = [poll EXCEPT !.server = "running"]
       \/ poll.server = "running" /\ poll' = [poll EXCEPT !.server = "completed"]
       \/ poll.server \in {"pending", "running"} /\ poll' = [poll EXCEPT !.server = "failed"]
    /\ UNCHANGED <<clientVars, session, proxy, menu, modal>>

\* useSimulation(runId) is mounted with the query enabled: the first fetch
SimMount ==
    /\ ~poll.mounted
    /\ poll' = [poll EXCEPT !.mounted = TRUE, !.fetching = TRUE]
    /\ UNCHANGED <<clientVars, session, proxy, menu, modal>>

\* the interval timer fires: the query is fetched again
SimTimerFires ==
    /\ poll.mounted /\ poll.interval # 0 /\ ~poll.fetching
    /\ poll.polls < MaxPolls
    /\ poll' = [poll EXCEPT !.fetching = TRUE, !.polls = @ + 1]
    /\ UNCHANGED <<clientVars, session, proxy, menu, modal>>

\* the query is fetched again for another reason (window focus, reconnect)
SimRefetch ==
    /\ poll.mounted /\ ~poll.fetching
    /\ poll' = [poll EXCEPT !.fetching = TRUE]
    /\ UNCHANGED <<clientVars, session, proxy, menu, modal>>

\* api.getSimulation(runId) resolves with the run: the data of the query is
\* replaced and the interval is computed from it
SimFetchDone ==
    /\ poll.fetching
    /\ poll' = [poll EXCEPT !.fetching = FALSE, !.data = poll.server,
                            !.interval = RefetchInterval(poll.server)]
    /\ UNCHANGED <<clientVars, session, proxy, menu, modal>>

\* api.getSimulation(runId) rejects: the query keeps its data
SimFetchError ==
    /\ poll.fetching
    /\ poll' = [poll EXCEPT !.fetching = FALSE, !.interval = RefetchInterval(poll.data)]
    /\ UNCHANGED <<clientVars, session, proxy, menu, modal>>

(***************************************************************************)
(* The API proxy route: proxyRequest(request, path, method)                *)
(***************************************************************************)
ProxyMethods == {"GET", "DELETE"}
\* request.headers.get('authorization') of a request without the header,
\* with an empty one and with a token
IncomingAuth == {NoHeader, "", "Bearer c1"}
\* session?.user?.accessToken
ServerSessionTokens == {NoUserToken, "", "s1"}
\* backend statuses: success with a body, success without content, an error
BackendStatuses == {200, 204, 404}
\* response.text() of a backend response with that status
BackendBodies(status) == IF status = 204 THEN {""} ELSE {"", "{...}"}

\* variant: the session token is preferred to the header of the client
ProxyAuthorizationSessionFirst(inAuth, sessionToken) ==
    IF sessionToken \notin {NoUserToken, ""} THEN "Bearer " \o sessionToken
    ELSE IF inAuth \notin {NoHeader, ""} THEN inAuth
    ELSE NoHeader

\* if (authHeader) headers['Authorization'] = authHeader; else if
\* (session?.user?.accessToken) headers['Authorization'] = `Bearer ${...}`
ProxyAuthorization(inAuth, sessionToken) ==
    IF inAuth \notin {NoHeader, ""} THEN inAuth
    ELSE IF sessionToken \notin {NoUserToken, ""} THEN "Bearer " \o sessionToken
    ELSE NoHeader

\* new Response(body, { status }) throws a TypeError for a body that is not
\* null together with a status that allows none
NullBodyStatuses == {101, 103, 204, 205, 304}
\* NextResponse.json({ error: 'Failed to connect to backend' }, { status: 502 })
BadGateway == [status |-> 502, body |-> "{\"error\":\"Failed to connect to backend\"}"]

\* proxyRequest() up to its fetch() of the backend
ProxyRequest(method, inAuth, sessionToken) ==
    /\ proxy.phase \in {"idle", "done"}
    /\ proxy' = [NoProxy EXCEPT !.phase = "fetch", !.method = method, !.inAuth = inAuth,
                                !.sessionToken = sessionToken,
                                !.sentAuth = ProxyAuthorization(inAuth, sessionToken)]
    /\ UNCHANGED <<clientVars, session, poll, menu, modal>>

\* the backend answers: the proxy reads the body
ProxyFetchResolve(status) ==
    /\ proxy.phase = "fetch"
    /\ proxy' = [proxy EXCEPT !.phase = "text", !.status = status]
    /\ UNCHANGED <<clientVars, session, poll, menu, modal>>

\* the backend call fails: the catch block answers 502
ProxyFetchReject ==
    /\ proxy.phase = "fetch"
    /\ proxy' = [proxy EXCEPT !.phase = "done", !.answer = BadGateway]
    /\ UNCHANGED <<clientVars, session, poll, menu, modal>>

\* response.text() resolves: new NextResponse(responseBody, { status:
\* response.status, ... }) inside the try block
ProxyTextResolve(body) ==
    /\ proxy.phase = "text"
    /\ body \in BackendBodies(proxy.status)
    /\ proxy' = [proxy EXCEPT !.phase = "done", !.bodyRead = TRUE, !.body = body,
                              !.answer = IF proxy.status \in NullBodyStatuses
                                         THEN BadGateway
                                         ELSE [status |-> proxy.status, body |-> body]]
    /\ UNCHANGED <<clientVars, session, poll, menu, modal>>

\* response.text() rejects: the catch block answers 502
ProxyTextReject ==
    /\ proxy.phase = "text"
    /\ proxy' = [proxy EXCEPT !.phase = "done", !.answer = BadGateway]
    /\ UNCHANGED <<clientVars, session, poll, menu, modal>>

(***************************************************************************)
(* MemberList                                                              *)
(***************************************************************************)
OrganizationRoles == {"owner", "admin", "member", "viewer"}
CurrentUserRoles == OrganizationRoles \cup {NoRole}
UserIds == {"u1", "u2"}
CurrentUserIds == {"u1", NoUserId}
Members == [id : UserIds, role : OrganizationRoles]

\* const canManageRoles = currentUserRole === 'owner' || currentUserRole === 'admin'
CanManageRoles(currentUserRole) == currentUserRole = "owner" \/ currentUserRole = "admin"

\* variant: an admin may modify another admin
CanModifyMemberAdminToo(currentUserRole, currentUserId, member) ==
    IF ~CanManageRoles(currentUserRole) THEN FALSE
    ELSE IF member.id = currentUserId THEN FALSE
    ELSE IF member.role = "owner" THEN FALSE
    ELSE TRUE

\* canModifyMember(member)
CanModifyMember(currentUserRole, currentUserId, member) ==
    IF ~CanManageRoles(currentUserRole) THEN FALSE
    ELSE IF member.id = currentUserId THEN FALSE
    ELSE IF member.role = "owner" THEN FALSE
    ELSE IF currentUserRole = "admin" /\ member.role = "admin" THEN FALSE
    ELSE TRUE

\* getAvailableRoles(member)
GetAvailableRoles(currentUserRole) ==
    IF currentUserRole = "owner" THEN <<"admin", "member", "viewer">>
    ELSE IF currentUserRole = "admin" THEN <<"member", "viewer">>
    ELSE << >>

\* the row of the member shows the menu button
MenuButtonShown ==
    menu.rendered /\ CanModifyMember(menu.currentUserRole, menu.currentUserId, menu.member)

\* MemberList is rendered with new props; openMenu is state and is kept
RenderMemberList(currentUserRole, currentUserId, member) ==
    /\ menu' = [rendered |-> TRUE, currentUserRole |-> currentUserRole,
                currentUserId |-> currentUserId, member |-> member,
                open |-> menu.open /\ menu.member.id = member.id,
                callback |-> NoCallback]
    /\ UNCHANGED <<clientVars, session, poll, proxy, modal>>

\* click on the menu button: setOpenMenu(isMenuOpen ? null : member.id)
ToggleMenu ==
    /\ MenuButtonShown
    /\ menu' = [menu EXCEPT !.open = ~menu.open, !.callback = NoCallback]
    /\ UNCHANGED <<clientVars, session, poll, proxy, modal>>

\* click on the i-th role of the open menu: onUpdateRole(member.id, role);
\* setOpenMenu(null)
ChooseRole(i) ==
    /\ MenuButtonShown /\ menu.open
    /\ i \in 1..Len(GetAvailableRoles(menu.currentUserRole))
    /\ menu' = [menu EXCEPT !.open = FALSE,
                            !.callback = [fn |-> "onUpdateRole", userId |-> menu.member.id,
                                          role |-> GetAvailableRoles(menu.currentUserRole)[i]]]
    /\ UNCHANGED <<clientVars, session, poll, proxy, modal>>

\* click beside the open menu: setOpenMenu(null)
CloseMenu ==
    /\ MenuButtonShown /\ menu.open
    /\ menu' = [menu EXCEPT !.open = FALSE, !.callback = NoCallback]
    /\ UNCHANGED <<clientVars, session, poll, proxy, modal>>

\* click on 'Remove member': onRemove(member.id); setOpenMenu(null)
RemoveMember ==
    /\ MenuButtonShown /\ menu.open
    /\ menu' = [menu EXCEPT !.open = FALSE,
                            !.callback = [fn |-> "onRemove", userId |-> menu.member.id,
                                          role |-> ""]]
    /\ UNCHANGED <<clientVars, session, poll, proxy, modal>>

(***************************************************************************)
(* MemberInviteModal                                                       *)
(***************************************************************************)
InviteRoles == {"admin", "member", "viewer"}
Emails == {"", "a@b.co"}
MaxMembersValues == {1, 2}
MemberCounts == {1, 2}
\* what onInvite rejects with: the ApiError object request() throws, or an
\* Error of the fetch
InviteErrors == {[isError |-> FALSE, message |-> "Invitation already sent"],
                 [isError |-> TRUE, message |-> "Failed to fetch"]}

\* const remainingSlots = maxMembers - currentMemberCount
RemainingSlots == modal.maxMembers - modal.currentMemberCount

\* the page renders the modal with its props; the state is kept
RenderModal(maxMembers, currentMemberCount) ==
    /\ modal' = [modal EXCEPT !.rendered = TRUE, !.maxMembers = maxMembers,
                              !.currentMemberCount = currentMemberCount]
    /\ UNCHANGED <<clientVars, session, poll, proxy, menu>>

\* the page sets showInviteModal
OpenModal ==
    /\ modal.rendered /\ ~modal.isOpen
    /\ modal' = [modal EXCEPT !.isOpen = TRUE, !.last = "none"]
    /\ UNCHANGED <<clientVars, session, poll, proxy, menu>>

\* backdrop, X and Cancel: onClose
CloseModal ==
    /\ modal.rendered /\ modal.isOpen
    /\ modal' = [modal EXCEPT !.isOpen = FALSE, !.last = "none"]
    /\ UNCHANGED <<clientVars, session, poll, proxy, menu>>

SetEmail(email) ==
    /\ modal.rendered /\ modal.isOpen
    /\ email # modal.email
    /\ modal' = [modal EXCEPT !.email = email, !.last = "none"]
    /\ UNCHANGED <<clientVars, session, poll, proxy, menu>>

SetRole(role) ==
    /\ modal.rendered /\ modal.isOpen
    /\ role # modal.role
    /\ modal' = [modal EXCEPT !.role = role, !.last = "none"]
    /\ UNCHANGED <<clientVars, session, poll, proxy, menu>>

\* variant: the slots are not checked before onInvite
HandleSubmitNoSlotCheck ==
    /\ modal.rendered /\ modal.isOpen
    /\ modal.pending < MaxInvites
    /\ modal' =
          IF modal.email = ""
          THEN [modal EXCEPT !.error = "Email is required", !.last = "refused"]
          ELSE [modal EXCEPT !.error = NoModalError, !.isLoading = TRUE,
                             !.pending = modal.pending + 1,
                             !.invited = [email |-> modal.email, role |-> modal.role],
                             !.last = "invited"]
    /\ UNCHANGED <<clientVars, session, poll, proxy, menu>>

\* handleSubmit up to its await
HandleSubmit ==
    /\ modal.rendered /\ modal.isOpen
    /\ modal.pending < MaxInvites
    /\ modal' =
          IF modal.email = ""
          THEN [modal EXCEPT !.error = "Email is required", !.last = "refused"]
          ELSE IF RemainingSlots <= 0
          THEN [modal EXCEPT !.error = "No more member slots available", !.last = "refused"]
          ELSE [modal EXCEPT !.error = NoModalError, !.isLoading = TRUE,
                             !.pending = modal.pending + 1,
                             !.invited = [email |-> modal.email, role |-> modal.role],
                             !.last = "invited"]
    /\ UNCHANGED <<clientVars, session, poll, proxy, menu>>

\* onInvite resolves: setEmail(''), setRole('member'), onClose(), finally
InviteResolve ==
    /\ modal.pending > 0
    /\ modal' = [modal EXCEPT !.email = "", !.role = "member", !.isOpen = FALSE,
                              !.isLoading = FALSE, !.pending = modal.pending - 1,
                              !.last = "resolved"]
    /\ UNCHANGED <<clientVars, session, poll, proxy, menu>>

\* variant: the form is closed and reset on failure as well
InviteRejectClosing(err) ==
    /\ modal.pending > 0
    /\ modal' = [modal EXCEPT !.email = "", !.role = "member", !.isOpen = FALSE,
                              !.error = IF err.isError THEN err.message
                                        ELSE "Failed to send invitation",
                              !.isLoading = FALSE, !.pending = modal.pending - 1,
                              !.last = "rejected"]
    /\ UNCHANGED <<clientVars, session, poll, proxy, menu>>

\* onInvite rejects: catch, finally
InviteReject(err) ==
    /\ modal.pending > 0
    /\ modal' = [modal EXCEPT !.error = IF err.isError THEN err.message
                                        ELSE "Failed to send invitation",
                              !.isLoading = FALSE, !.pending = modal.pending - 1,
                              !.last = "rejected"]
    /\ UNCHANGED <<clientVars, session, poll, proxy, menu>>

\* every call site of request() leaves deduplicate at its default
Deduplicate == {TRUE}
\* no call site of request() passes options.headers
NoOptionHeaders == {<< >>}

\* the token of a client whose session carries no access token
AnonTokens == {NullToken}
\* every read call site of request() omits the method
OmittedMethod == {NoMethod}
\* a read and a write, so that two requests are in flight together
ReadAndWrite == {NoMethod, "POST"}

\* The request layer under requests of every method, on a client whose token
\* stays null.
Next ==
    \/ \E m \in Methods, e \in Endpoints, b \in ReqBodies, h \in NoOptionHeaders,
          d \in Deduplicate : Request(m, e, b, h, d)
    \/ \E t \in AnonTokens : SetAccessToken(t)
    \/ CancelAllRequests
    \/ \E r \in Slots, s \in OkStatuses \cup ErrStatuses : FetchResolve(r, s)
    \/ \E r \in Slots, msg \in FetchFailures : FetchReject(r, msg)
    \/ \E r \in Slots : FetchAborted(r)
    \/ \E r \in Slots, d \in Data : JsonOkResolve(r, d)
    \/ \E r \in Slots : JsonOkReject(r)
    \/ \E r \in Slots, b \in ErrBodies : JsonErrResolve(r, b)
    \/ \E r \in Slots : JsonErrReject(r)

Spec == Init /\ [][Next]_vars

\* The request layer under reads, on a client whose token is set and cleared
\* at any time.
NextAuth ==
    \/ \E m \in OmittedMethod, e \in Endpoints, b \in ReqBodies, h \in NoOptionHeaders,
          d \in Deduplicate : Request(m, e, b, h, d)
    \/ \E t \in Tokens : SetAccessToken(t)
    \/ CancelAllRequests
    \/ \E r \in Slots, s \in OkStatuses \cup ErrStatuses : FetchResolve(r, s)
    \/ \E r \in Slots, msg \in FetchFailures : FetchReject(r, msg)
    \/ \E r \in Slots : FetchAborted(r)
    \/ \E r \in Slots, d \in Data : JsonOkResolve(r, d)
    \/ \E r \in Slots : JsonOkReject(r)
    \/ \E r \in Slots, b \in ErrBodies : JsonErrResolve(r, b)
    \/ \E r \in Slots : JsonErrReject(r)

SpecAuth == Init /\ [][NextAuth]_vars

\* one transport failure and one error body: which of them a request meets
\* does not change when its cleanup runs
OneFailure == {"Failed to fetch"}
OneErrBody == {JObj(JStr("Not found"))}

\* the continuation of the closure in slot r after its awaited promise settles
NetworkStep(r) ==
    \/ \E s \in OkStatuses \cup ErrStatuses : FetchResolve(r, s)
    \/ \E msg \in OneFailure : FetchReject(r, msg)
    \/ FetchAborted(r)
    \/ \E d \in Data : JsonOkResolve(r, d)
    \/ JsonOkReject(r)
    \/ \E b \in OneErrBody : JsonErrResolve(r, b)
    \/ JsonErrReject(r)

NextLive ==
    \/ \E m \in ReadAndWrite, e \in Endpoints, b \in ReqBodies, h \in NoOptionHeaders,
          d \in Deduplicate : Request(m, e, b, h, d)
    \/ CancelAllRequests
    \/ \E r \in Slots : NetworkStep(r)

\* The request layer when every fetch() and every body read settles: the
\* event loop runs the continuation of a closure whose awaited promise has
\* settled.
SpecLive == Init /\ [][NextLive]_vars /\ \A r \in Slots : WF_vars(NetworkStep(r))

\* options.headers of a caller that passes an Authorization header of its
\* own, under either spelling of the name
OptionHeaders ==
    {<< >>, <<Entry("Authorization", "Basic x")>>, <<Entry("authorization", "Basic x")>>}

\* The headers of the requests, on a client whose token is set and cleared
\* at any time and whose callers pass headers of their own.
NextHeaders ==
    \/ \E m \in ReadAndWrite, e \in Endpoints, b \in ReqBodies, h \in OptionHeaders,
          d \in Deduplicate : Request(m, e, b, h, d)
    \/ \E t \in Tokens : SetAccessToken(t)
    \/ \E r \in Slots, msg \in FetchFailures : FetchReject(r, msg)

SpecHeaders == Init /\ [][NextHeaders]_vars

\* endpoints and bodies that contain the separator of the request key
KeyEndpoints == {"/a", "/a:b"}
KeyBodies == {NoBody, "b:"}
Reads == {NoMethod, "GET"}

\* The request keys of reads whose endpoint or body contains ':'.
NextKeys ==
    \/ \E m \in Reads, e \in KeyEndpoints, b \in KeyBodies, h \in NoOptionHeaders,
          d \in Deduplicate : Request(m, e, b, h, d)
    \/ CancelAllRequests
    \/ \E r \in Slots, msg \in FetchFailures : FetchReject(r, msg)
    \/ \E r \in Slots : FetchAborted(r)

SpecKeys == Init /\ [][NextKeys]_vars

\* Reads through request() and cancelAllRequests() next to the operations
\* that call fetch() or EventSource themselves, for any base URL, on a client
\* whose token stays null.
NextDirect ==
    \/ \E m \in OmittedMethod, e \in Endpoints, b \in ReqBodies, h \in NoOptionHeaders,
          d \in Deduplicate : Request(m, e, b, h, d)
    \/ CancelAllRequests
    \/ \E r \in Slots, msg \in OneFailure : FetchReject(r, msg)
    \/ \E r \in Slots : FetchAborted(r)
    \/ CheckHealth
    \/ \E id \in RunIds, f \in Formats : ExportSimulation(id, f)
    \/ \E id \in RunIds : StreamSimulation(id)
    \/ \E f \in Files : AnalyzePersonaUpload(f)
    \/ \E f \in Files : ProcessPersonaUpload(f)
    \/ \E d \in BagToSet(direct) : DirectEnd(d)
    \/ \E d \in BagToSet(direct), s \in OkStatuses \cup ErrStatuses : HealthFetchResolve(d, s)
    \/ \E d \in BagToSet(direct) : HealthFetchReject(d)
    \/ \E d \in BagToSet(direct), b \in HealthBodies : HealthJsonResolve(d, b)
    \/ \E d \in BagToSet(direct) : HealthJsonReject(d)

SpecDirect == InitAnyUrl /\ [][NextDirect]_vars

\* The token of the client under useApiAuth, with reads in flight.
NextSession ==
    \/ \E s \in SessionValues : UseApiAuthEffect(s)
    \/ \E m \in OmittedMethod, e \in Endpoints, b \in ReqBodies, h \in NoOptionHeaders,
          d \in Deduplicate : Request(m, e, b, h, d)
    \/ CancelAllRequests
    \/ \E r \in Slots, msg \in OneFailure : FetchReject(r, msg)
    \/ \E r \in Slots : FetchAborted(r)

SpecSession == Init /\ [][NextSession]_vars

\* The query of useSimulation while the run goes through its statuses.
NextPoll ==
    \/ RunAdvance
    \/ SimMount
    \/ SimTimerFires
    \/ SimRefetch
    \/ SimFetchDone
    \/ SimFetchError

SpecPoll == Init /\ [][NextPoll]_vars

\* The proxy route handling one request after another.
NextProxy ==
    \/ \E m \in ProxyMethods, a \in IncomingAuth, t \in ServerSessionTokens :
          ProxyRequest(m, a, t)
    \/ \E st \in BackendStatuses : ProxyFetchResolve(st)
    \/ ProxyFetchReject
    \/ \E b \in {"", "{...}"} : ProxyTextResolve(b)
    \/ ProxyTextReject

SpecProxy == Init /\ [][NextProxy]_vars

\* MemberList under every combination of its props, for one row.
NextMembers ==
    \/ \E r \in CurrentUserRoles, u \in CurrentUserIds, mb \in Members :
          RenderMemberList(r, u, mb)
    \/ ToggleMenu
    \/ CloseMenu
    \/ \E i \in 1..3 : ChooseRole(i)
    \/ RemoveMember

SpecMembers == Init /\ [][NextMembers]_vars

\* MemberInviteModal, from the page rendering it to the invitations settled.
NextModal ==
    \/ \E mx \in MaxMembersValues, n \in MemberCounts : RenderModal(mx, n)
    \/ OpenModal
    \/ CloseModal
    \/ \E e \in Emails : SetEmail(e)
    \/ \E r \in InviteRoles : SetRole(r)
    \/ HandleSubmit
    \/ InviteResolve
    \/ \E err \in InviteErrors : InviteReject(err)

SpecModal == Init /\ [][NextModal]_vars

(***************************************************************************)
(* Properties                                                              *)
(***************************************************************************)
\* the key of a read: method omitted or GET
IsReadKey(key) == Len(key) >= 4 /\ SubSeq(key, 1, 4) = "GET:"
\* the network operation of the closure is still running (response or body
\* not yet received, not aborted)
NetworkActive(r) == reqs[r].phase \in {"fetch", "jsonOk", "jsonErr"}
HasSettled == settlement.promise.state # "pending"
CancelError == ApiError(JStr("Request was cancelled"), 0)
\* { detail: string, status: number }
IsApiErrorShape(e) == e.cls = "object" /\ e.detail.t = "string" /\ e.status # NoStatus

\* C1: two identical deduplicated reads whose promises are pending at the same
\* time are one network call: no two closures with a pending promise were
\* started for the same read (same method, endpoint and body), also when no
\* cancelAllRequests() came between them.
C1_ConcurrentIdenticalReadsShare ==
    \A r \in Live : \A q \in Live :
        (/\ reqs[r].dedup /\ reqs[q].dedup
         /\ ~reqs[r].cancelled /\ ~reqs[q].cancelled
         /\ reqs[r].method = reqs[q].method
         /\ reqs[r].endpoint = reqs[q].endpoint
         /\ reqs[r].body = reqs[q].body) => r = q

\* C2: in every reachable state at most one network operation is in flight
\* for each read request key.
C2_OneNetworkOpPerReadKey ==
    \A r \in Live : \A q \in Live :
        (/\ IsReadKey(reqs[r].key) /\ reqs[r].key = reqs[q].key
         /\ NetworkActive(r) /\ NetworkActive(q)) => r = q

\* C3: a request that was in flight when cancelAllRequests() was called
\* rejects with the cancellation error (detail 'Request was cancelled',
\* status 0), whatever phase it was in.
C3_CancelledRejectWithCancelError ==
    (HasSettled /\ settlement.cancelled) => settlement.promise = Rejected(CancelError)

\* C4: every rejection request() delivers has the shape
\* {detail: string, status: number}.
C4_RejectionsAreApiErrors ==
    settlement.promise.state = "rejected" => IsApiErrorShape(settlement.promise.error)

\* C5: when a request settles, its key is in neither the pending-request
\* table nor the cancellation registry.
C5_SettledKeyUntracked ==
    HasSettled => /\ settlement.key \notin DOMAIN pendingRequests
                  /\ settlement.key \notin DOMAIN abortControllers

\* C6: every request that has started and not completed (and that no
\* cancelAllRequests() has aborted yet) has its own cancellation token
\* registered under its key.
C6_InFlightHasOwnController ==
    \A r \in Live :
        ~reqs[r].cancelled =>
            /\ reqs[r].key \in DOMAIN abortControllers
            /\ abortControllers[reqs[r].key] = r

\* C7: the pending-request entry of a deduplicated read is present from the
\* start of the request until its promise settles, unless
\* cancelAllRequests() is called.
C7_PendingEntryUntilSettled ==
    \A r \in Live :
        (reqs[r].dedup /\ ~reqs[r].cancelled) =>
            /\ reqs[r].key \in DOMAIN pendingRequests
            /\ pendingRequests[reqs[r].key] = r

\* C8: a call of request() with a method other than GET always begins its
\* own network call, and its promise is never handed to another caller (it
\* is not a pending-request entry).
C8_NonGetNeverDeduplicated ==
    (returned.called /\ returned.method \notin {NoMethod, "GET"}) =>
        /\ returned.fetched
        /\ reqs[returned.promise].phase = "fetch"
        /\ returned.promise \notin MapValues(pendingRequests)

\* C8 witness: a non-GET call returns while an identical non-GET request is
\* in flight.
C8_Witness ==
    /\ returned.called /\ returned.method = "POST" /\ returned.fetched
    /\ \E q \in Live : q # returned.promise /\ reqs[q].key = reqs[returned.promise].key

\* C9: a request in flight keeps the Authorization header state it was
\* constructed with in every step, setAccessToken() included.
C9_InFlightKeepsAuth ==
    [][\A r \in Slots :
          (reqs[r].phase # "free" /\ reqs'[r].phase # "free") =>
              reqs'[r].auth = reqs[r].auth]_vars

\* C9 witness: a request is in flight with a header state that the current
\* token would not produce (the token was set after the request began).
C9_Witness ==
    \E r \in Live : reqs[r].auth # AuthHeader(accessToken)

\* the detail the caller is to see for a decoded error body
UsableDetail(body) ==
    IF body.t = "object" /\ Truthy(body.detail) THEN body.detail ELSE JStr("An error occurred")

\* C10: when the server answers with a non-success status, the promise
\* rejects with that status and with the detail of the response body, or
\* 'An error occurred' when the body has no usable detail.
C10_HttpErrorKeepsStatus ==
    (HasSettled /\ settlement.status \in ErrStatuses) =>
        settlement.promise = Rejected(ApiError(UsableDetail(settlement.body), settlement.status))

UnableToConnect ==
    ApiError(JStr("Unable to connect to server. Please check your connection and try again."), 0)

\* C11: when fetch() fails at transport level (no response, no abort), the
\* promise rejects with status 0 and the 'Unable to connect to server'
\* message.
C11_TransportFailureUnableToConnect ==
    (HasSettled /\ settlement.status = 0 /\ ~settlement.cancelled) =>
        settlement.promise = Rejected(UnableToConnect)

\* C12: when a deduplicated read that was aborted settles, its callers
\* reject with the cancellation error and its cleanup has run (its key is
\* in neither table).
C12_AbortedReadRejectsCancelled ==
    [][\A r \in Slots :
          (/\ reqs[r].dedup
           /\ reqs[r].phase \in {"fetchAborted", "jsonErrAborted", "jsonOkAborted"}
           /\ reqs'[r].phase = "free") =>
              /\ settlement'.promise = Rejected(CancelError)
              /\ reqs[r].key \notin DOMAIN pendingRequests'
              /\ reqs[r].key \notin DOMAIN abortControllers']_vars

\* C13: from the return of cancelAllRequests() until request() begins a new
\* request (as long as every request in flight is one that a
\* cancelAllRequests() has covered), both tables are empty; the cleanup of
\* the aborted requests adds nothing back.
C13_TablesEmptyAfterCancel ==
    (\A r \in Live : reqs[r].cancelled) =>
        (pendingRequests = EmptyMap /\ abortControllers = EmptyMap)

\* C13 witness: the cleanup of one aborted request has run while another
\* request covered by the same cancelAllRequests() is still in flight.
C13_Witness ==
    /\ HasSettled /\ settlement.cancelled
    /\ settlement.promise = Rejected(CancelError)
    /\ \E r \in Live : reqs[r].cancelled
    /\ \A r \in Live : reqs[r].cancelled

\* the Authorization header the caller's own options.headers would send
CallerAuthorization(headers) == HeaderSent(headers, "authorization")

\* C14 (as claimed): a network call begun while the token is a non-null
\* value t carries 'Authorization: Bearer t', whatever options.headers holds;
\* while the token is null the client adds no Authorization header.
C14_NonNullTokenSendsBearer ==
    (returned.called /\ returned.fetched) =>
        IF accessToken # NullToken
        THEN reqs[returned.promise].auth = "Bearer " \o accessToken
        ELSE reqs[returned.promise].auth = CallerAuthorization(returned.headers)

\* C14 (amended): a network call begun while the token is a non-empty string
\* t carries 'Bearer t' in its Authorization header: alone when
\* options.headers has no Authorization entry or has one under the name
\* 'Authorization', and after the caller's value, joined by ', ', when
\* options.headers has one under another spelling of the name.  While the
\* token is null or the empty string the client adds no Authorization
\* header.
C14_TruthyTokenSendsBearer ==
    (returned.called /\ returned.fetched) =>
        LET sent == reqs[returned.promise].auth
            own == \E i \in 1..Len(returned.headers) :
                      returned.headers[i].name = "Authorization"
        IN  IF accessToken \notin {NullToken, ""}
            THEN IF own \/ CallerAuthorization(returned.headers) = NoHeader
                 THEN sent = "Bearer " \o accessToken
                 ELSE sent = CallerAuthorization(returned.headers) \o ", Bearer "
                                \o accessToken
            ELSE sent = CallerAuthorization(returned.headers)

\* C14 witness: with a token set, a request whose options.headers carries an
\* Authorization header begins a network call that sends the client's token.
C14_Witness ==
    /\ returned.called /\ returned.fetched
    /\ accessToken = "t1"
    /\ returned.headers = <<Entry("Authorization", "Basic x")>>
    /\ reqs[returned.promise].auth = "Bearer t1"

\* C15: a step that changes the access token, to null included, leaves the
\* pending-request table, the cancellation registry and every closure in
\* flight as they are.
C15_SetAccessTokenFrame ==
    [][accessToken' # accessToken =>
          UNCHANGED <<pendingRequests, abortControllers, reqs>>]_vars

\* C15 witness: the token has been cleared while a request sent with it is
\* still in flight and still in both tables.
C15_Witness ==
    /\ accessToken = NullToken
    /\ \E r \in Live :
          /\ reqs[r].auth = "Bearer t1"
          /\ reqs[r].phase = "fetch"
          /\ reqs[r].key \in DOMAIN pendingRequests
          /\ reqs[r].key \in DOMAIN abortControllers
          /\ pendingRequests[reqs[r].key] = r

\* C16: a closure begins to exist only in the call of request() that returns
\* its promise, one per call; it calls fetch() once and never goes back to
\* waiting for fetch(); a step that delivers a failure starts no closure.
C16_NoRetry ==
    [][/\ \A r \in Slots :
            (reqs[r].phase = "free" /\ reqs'[r].phase # "free") =>
                /\ returned'.called /\ returned'.fetched /\ returned'.promise = r
                /\ reqs'[r].phase = "fetch"
                /\ \A q \in Slots \ {r} : reqs'[q] = reqs[q]
       /\ \A r \in Slots :
            /\ reqs'[r].phase # "free" => reqs'[r].fetches = 1
            /\ (reqs[r].phase \notin {"free", "fetch"}) => reqs'[r].phase # "fetch"
       /\ settlement'.promise.state = "rejected" =>
            /\ ~returned'.called
            /\ \A r \in Slots : reqs'[r].phase # "free" => reqs'[r] = reqs[r]]_vars

\* C16 witness: the only request has failed at transport level; the failure
\* is delivered and nothing is in flight.
C16_Witness ==
    /\ settlement.promise = Rejected(UnableToConnect)
    /\ ~settlement.cancelled
    /\ Live = {}

\* the method fetch() uses
MethodOrGet(method) == IF method = NoMethod THEN "GET" ELSE method

\* C19: a read call (method omitted or 'GET') made while a deduplicated read
\* of the same endpoint and body, never cancelled, is still pending returns
\* the promise of that read and begins no network call.
C19_OmittedMethodAndGetShare ==
    (returned.called /\ returned.deduplicate /\ MethodOrGet(returned.method) = "GET") =>
        \A q \in Live :
            (/\ reqs[q].dedup /\ ~reqs[q].cancelled
             /\ reqs[q].method # returned.method
             /\ reqs[q].endpoint = returned.endpoint
             /\ reqs[q].body = returned.body) =>
                (returned.promise = q /\ ~returned.fetched)

InFlightDirect(opName) == {d \in BagToSet(direct) : d.op = opName}

\* C17: a step in which an operation that bypasses request() begins or ends
\* changes neither table and no closure of request(), and a step that changes
\* a table or a closure (cancelAllRequests() among them) leaves the bypassing
\* operations in flight as they are.
C17_DirectOpsUntracked ==
    [][direct' # direct => UNCHANGED <<pendingRequests, abortControllers, reqs>>]_vars

\* C17 witness: two identical uploads are in flight, each on its own, after
\* a cancelAllRequests() that aborted a request() read.
C17_Witness ==
    /\ \E d \in InFlightDirect("analyzePersonaUpload") : CopiesIn(d, direct) = 2
    /\ \E r \in Live : reqs[r].cancelled /\ reqs[r].phase = "fetchAborted"
    /\ pendingRequests = EmptyMap /\ abortControllers = EmptyMap

\* C20: a step in which checkHealth() begins its network call sends it to
\* '/api/health', returns nothing from request() and changes neither table
\* and no closure of request().
C20_CheckHealthFixedPath ==
    [][\A d \in BagToSet(direct') :
          (d.op = "checkHealth" /\ CopiesIn(d, direct') > CopiesIn(d, direct)) =>
              /\ d.url = "/api/health"
              /\ ~returned'.called
              /\ UNCHANGED <<pendingRequests, abortControllers, reqs>>]_vars

\* C20 witness: a client constructed with an absolute base URL has a health
\* check in flight on the relative path.
C20_Witness ==
    /\ baseUrl = DefaultApiUrl
    /\ \E d \in InFlightDirect("checkHealth") : d.url = "/api/health"

\* C21: a step that is neither a call of request() nor a step of the
\* request in slot q (its own continuation, or a cancelAllRequests() that
\* covers it) leaves the pending-request entry and the controller that belong
\* to q in place.
C21_CleanupSparesOtherRequests ==
    [][\A q \in Slots :
          (/\ reqs[q].phase # "free"
           /\ reqs'[q] = reqs[q]
           /\ ~returned'.called) =>
              /\ (/\ reqs[q].key \in DOMAIN abortControllers
                  /\ abortControllers[reqs[q].key] = q) =>
                     (/\ reqs[q].key \in DOMAIN abortControllers'
                      /\ abortControllers'[reqs[q].key] = q)
              /\ (/\ reqs[q].key \in DOMAIN pendingRequests
                  /\ pendingRequests[reqs[q].key] = q) =>
                     (/\ reqs[q].key \in DOMAIN pendingRequests'
                      /\ pendingRequests'[reqs[q].key] = q)]_vars

\* the request in slot r is in one of the tables
Tracked(r) == r \in MapValues(pendingRequests) \/ r \in MapValues(abortControllers)

\* C22: when every network call and body read settles, each entry of the
\* pending-request table and of the cancellation registry is eventually
\* removed.
C22_EntriesEventuallyRemoved ==
    \A r \in Slots : Tracked(r) ~> ~Tracked(r)

\* C22 witness: a read has gone through its whole life, to the delivery of
\* its data, and nothing is tracked or in flight any more.
C22_Witness ==
    /\ settlement.promise.state = "fulfilled"
    /\ Live = {}
    /\ pendingRequests = EmptyMap /\ abortControllers = EmptyMap

\* C23: a read call returns a promise whose network call was sent with the
\* Authorization header of the token the client holds at the call.
C23_ReadUsesCurrentToken ==
    returned.called => reqs[returned.promise].auth = AuthHeader(accessToken)

\* C24: checkHealth() never rejects; it answers healthy = true only for a
\* response with a success status whose body decoded, and healthy = false
\* with an error message for another status, for a transport failure and
\* for a body that does not decode.
C24_CheckHealthNeverRejects ==
    health.settled =>
        /\ ~health.rejected
        /\ health.result.healthy =>
              (health.status \in OkStatuses /\ health.body.t = "object")
        /\ (health.status \notin OkStatuses \/ health.body = Undecodable) =>
              /\ ~health.result.healthy
              /\ health.result.error.t = "string"
              /\ health.result.error.v # ""

\* C24 witness: an ok health response whose body did not decode was answered
\* with healthy = false.
C24_Witness ==
    /\ health.settled
    /\ health.status \in OkStatuses
    /\ health.body = Undecodable
    /\ health.result = HealthCatch

\* C25: after the effect of useApiAuth has run for the current session, the
\* token of the client is the accessToken of the session's user, and null
\* when the session has no user or the user has no accessToken.
C25_TokenFollowsSession ==
    accessToken = IF session.user /\ session.accessToken # NoUserToken
                  THEN session.accessToken
                  ELSE NullToken

C28_BackendAnswerPassedOn ==
    proxy.phase = "done" =>
        proxy.answer = IF proxy.bodyRead
                       THEN [status |-> proxy.status, body |-> proxy.body]
                       ELSE BadGateway

\* the roles the open menu of the row offers
RolesOffered ==
    IF MenuButtonShown
    THEN {GetAvailableRoles(menu.currentUserRole)[i] :
             i \in 1..Len(GetAvailableRoles(menu.currentUserRole))}
    ELSE {}

\* C29: the menu of a member is offered, and a click in it calls
\* onUpdateRole or onRemove, only if the current user is owner or admin, the
\* member is not the current user, the member is not an owner and an admin
\* is not acting on an admin; the roles offered and chosen never include
\* 'owner', and for an admin never 'admin'.
C29_MenuOnlyForManageableMembers ==
    /\ (MenuButtonShown \/ menu.callback.fn # "none") =>
          /\ menu.currentUserRole \in {"owner", "admin"}
          /\ menu.member.id # menu.currentUserId
          /\ menu.member.role # "owner"
          /\ ~(menu.currentUserRole = "admin" /\ menu.member.role = "admin")
    /\ "owner" \notin RolesOffered
    /\ menu.currentUserRole = "admin" => "admin" \notin RolesOffered
    /\ menu.callback.fn = "onUpdateRole" =>
          /\ menu.callback.role # "owner"
          /\ menu.currentUserRole = "admin" => menu.callback.role # "admin"

\* C29 witness: an admin has changed the role of a member through the menu.
C29_Witness ==
    /\ menu.currentUserRole = "admin"
    /\ menu.member.role = "member"
    /\ menu.callback.fn = "onUpdateRole"
    /\ menu.callback.role = "viewer"

\* C30: a submit with an empty email or with no member slot left does not
\* call onInvite; when a call of onInvite settles isLoading is false; on
\* success the modal is closed and the form reset; on failure the modal, the
\* email and the role are left as they are and an error is shown.
C30_SubmitGuardsAndSettles ==
    [][/\ modal'.pending > modal.pending =>
            /\ modal.email # ""
            /\ modal.maxMembers - modal.currentMemberCount > 0
            /\ modal'.invited = [email |-> modal.email, role |-> modal.role]
       /\ modal'.pending < modal.pending =>
            /\ ~modal'.isLoading
            /\ modal'.last = "resolved" =>
                  ~modal'.isOpen /\ modal'.email = "" /\ modal'.role = "member"
            /\ modal'.last # "resolved" =>
                  /\ modal'.isOpen = modal.isOpen
                  /\ modal'.email = modal.email
                  /\ modal'.role = modal.role
                  /\ modal'.error \notin {NoModalError, ""}]_vars

\* C30 witness: an invitation failed and the modal is open with the error,
\* the email and the role as entered.
C30_Witness ==
    /\ modal.last = "rejected"
    /\ modal.isOpen
    /\ ~modal.isLoading
    /\ modal.error = "Failed to send invitation"
    /\ modal.email = "a@b.co"
    /\ modal.role = "admin"
    /\ modal.invited = [email |-> "a@b.co", role |-> "admin"]

====
